---- MODULE Spec2Model ----
(***************************************************************************)
(* UPlotScaleBuilder (packages/grafana-ui/src/components/uPlot/config):    *)
(* the builder's props, merge, getConfig with the range function it        *)
(* installs, and optMinMax.                                                *)
(*                                                                         *)
(* Numbers are fixed point: the integer n stands for the number n / Den.   *)
(* A value that may be absent is a tagged record: Undefined, Null, Num(n). *)
(***************************************************************************)
EXTENDS Integers, Sequences, FiniteSets, TLC

VARIABLES props, config, closure, call, seen, opt

vars == <<props, config, closure, call, seen, opt>>

----------------------------------------------------------------------------
(* Values *)

Den == 100

Infinity == 100000000

Undefined == [t |-> "undefined"]

Null == [t |-> "null"]

Num(n) == [t |-> "num", v |-> n]

Bool(b) == [t |-> "bool", v |-> b]

\* a == null, in the loose sense of JavaScript: null or undefined
IsNullish(a) == a.t = "undefined" \/ a.t = "null"

\* a ?? d
Coalesce(a, d) == IF IsNullish(a) THEN d ELSE a

\* the truth value of an optional boolean
Truthy(a) == a.t = "bool" /\ a.v

\* ToNumber of a number or null, as arithmetic and Math.abs coerce it
ToNumber(a) == IF a.t = "num" THEN a.v ELSE 0

Abs(n) == IF n < 0 THEN -n ELSE n

Max2(a, b) == IF a > b THEN a ELSE b

Min2(a, b) == IF a < b THEN a ELSE b

----------------------------------------------------------------------------
(* optMinMax *)

\* optMinMax with a fault: presence tested by truthiness, so that 0 is absent
optMinMaxFalsy(minmax, a, b) ==
    LET hasA == a.t = "num" /\ a.v # 0
        hasB == b.t = "num" /\ b.v # 0
    IN  IF hasA
        THEN IF ~hasB THEN a
             ELSE IF minmax = "min"
                  THEN (IF a.v < b.v THEN a ELSE b)
                  ELSE (IF a.v > b.v THEN a ELSE b)
        ELSE b

optMinMax(minmax, a, b) ==
    LET hasA == ~(a = Undefined \/ a = Null)
        hasB == ~(b = Undefined \/ b = Null)
    IN  IF hasA
        THEN IF ~hasB THEN a
             ELSE IF minmax = "min"
                  THEN (IF a.v < b.v THEN a ELSE b)
                  ELSE (IF a.v > b.v THEN a ELSE b)
        ELSE b

----------------------------------------------------------------------------
(* Rounding and the ranging functions getConfig's range function calls *)

\* Math.floor(num / incr) * incr
incrRoundDn(num, incr) == (num \div incr) * incr

\* Math.ceil(num / incr) * incr
incrRoundUp(num, incr) == -(((-num) \div incr) * incr)

RECURSIVE Pow(_, _)
Pow(b, e) == IF e <= 0 THEN 1 ELSE b * Pow(b, e - 1)

\* b^e <= num / den, for den > 0
PowLeq(b, e, num, den) ==
    IF e >= 0 THEN Pow(b, e) * den <= num ELSE den <= num * Pow(b, -e)

\* b^e >= num / den, for den > 0
PowGeq(b, e, num, den) ==
    IF e >= 0 THEN Pow(b, e) * den >= num ELSE den >= num * Pow(b, -e)

\* the exponents searched start at -MaxExp: b^(-MaxExp) is below every number met
MaxExp == 4

RECURSIVE FloorLogFrom(_, _, _, _)
FloorLogFrom(b, e, num, den) ==
    IF PowLeq(b, e + 1, num, den) THEN FloorLogFrom(b, e + 1, num, den) ELSE e

RECURSIVE CeilLogFrom(_, _, _, _)
CeilLogFrom(b, e, num, den) ==
    IF PowGeq(b, e, num, den) THEN e ELSE CeilLogFrom(b, e + 1, num, den)

\* Math.floor(log_b(num / den)), for num / den > 0
FloorLog(b, num, den) == FloorLogFrom(b, -MaxExp, num, den)

\* Math.ceil(log_b(num / den)), for num / den > 0
CeilLog(b, num, den) == CeilLogFrom(b, -MaxExp, num, den)

\* Math.pow(b, e) as a fixed-point number
PowFix(b, e) == IF e >= 0 THEN Den * Pow(b, e) ELSE Den \div Pow(b, -e)

Sign(n) == IF n > 0 THEN 1 ELSE IF n < 0 THEN -1 ELSE 0

(* uPlot.rangeNum(_min, _max, cfg) with a Range.Config cfg.  The result of  *)
(* roundDec(., 9) is the number itself at this precision.                  *)
rangeNum(_min, _max, cfg) ==
    LET padMin      == cfg.min.pad
        padMax      == cfg.max.pad
        hardMin     == cfg.min.hard
        hardMax     == cfg.max.hard
        softMin     == cfg.min.soft
        softMax     == cfg.max.soft
        softMinMode == cfg.min.mode
        softMaxMode == cfg.max.mode
        delta0      == _max - _min
        \* delta < 1e-9: the data is flat
        flat        == delta0 <= 0
        \* flat at zero: delta = 1e-9, which pads and rounds to nothing
        tiny        == flat /\ (_min = 0 \/ _max = 0)
        delta       == IF flat THEN 0 ELSE delta0
        nonZeroDelta == IF delta # 0 THEN delta
                        ELSE IF Abs(_max) # 0 THEN Abs(_max) ELSE 1000 * Den
        base        == PowFix(10, FloorLog(10, nonZeroDelta, Den))
        incr        == base \div 10
        _padMin     == IF delta = 0 THEN (IF _min = 0 THEN nonZeroDelta \div 10 ELSE nonZeroDelta)
                       ELSE (nonZeroDelta * padMin) \div Den
        _newMin     == IF tiny THEN _min ELSE incrRoundDn(_min - _padMin, incr)
        _softMin    == IF _min >= softMin /\ (softMinMode = 1
                                              \/ (softMinMode = 3 /\ _newMin <= softMin)
                                              \/ (softMinMode = 2 /\ _newMin >= softMin))
                       THEN softMin ELSE Infinity
        minLim      == Max2(hardMin, IF _newMin < _softMin /\ _min >= _softMin
                                     THEN _softMin ELSE Min2(_softMin, _newMin))
        _padMax     == IF delta = 0 THEN (IF _max = 0 THEN nonZeroDelta \div 10 ELSE nonZeroDelta)
                       ELSE (nonZeroDelta * padMax) \div Den
        _newMax     == IF tiny THEN _max ELSE incrRoundUp(_max + _padMax, incr)
        _softMax    == IF _max <= softMax /\ (softMaxMode = 1
                                              \/ (softMaxMode = 3 /\ _newMax >= softMax)
                                              \/ (softMaxMode = 2 /\ _newMax <= softMax))
                       THEN softMax ELSE -Infinity
        maxLim      == Min2(hardMax, IF _newMax > _softMax /\ _max <= _softMax
                                     THEN _softMax ELSE Max2(_softMax, _newMax))
    IN  IF minLim = maxLim /\ minLim = 0 THEN <<minLim, 100 * Den>> ELSE <<minLim, maxLim>>

(* uPlot.rangeLog(min, max, base, fullMags); the logarithm is log10 for    *)
(* base 10 and log2 otherwise.  A zero has the exponent -Infinity and the  *)
(* increment 0.                                                            *)
rangeLog(min, max, base, fullMags) ==
    LET minSign == Sign(min)
        maxSign == Sign(max)
        eq      == min = max
        \* min == max: one magnitude is added on each side; the values
        \* become (num / den) with den = 1 or base
        minNum  == IF eq /\ minSign = -1 THEN Abs(min) * base ELSE Abs(min)
        minDen  == IF eq /\ minSign # -1 THEN Den * base ELSE Den
        maxNum  == IF eq /\ minSign # -1 THEN Abs(max) * base ELSE Abs(max)
        maxDen  == IF eq /\ minSign = -1 THEN Den * base ELSE Den
        logBase == IF base = 10 THEN 10 ELSE 2
        minIncr == IF minNum = 0 THEN 0
                   ELSE PowFix(base, IF minSign = 1 THEN FloorLog(logBase, minNum, minDen)
                                     ELSE CeilLog(logBase, minNum, minDen))
        maxIncr == IF maxNum = 0 THEN 0
                   ELSE PowFix(base, IF maxSign = 1 THEN CeilLog(logBase, maxNum, maxDen)
                                     ELSE FloorLog(logBase, maxNum, maxDen))
        min1    == IF eq THEN (IF minSign = -1 THEN min * base ELSE min \div base) ELSE min
        max1    == IF eq THEN (IF minSign = -1 THEN max \div base ELSE max * base) ELSE max
    IN  IF fullMags \/ base = 2
        THEN <<minIncr * minSign, maxIncr * maxSign>>
        ELSE <<IF minIncr = 0 THEN min1 ELSE incrRoundDn(min1, minIncr),
               IF maxIncr = 0 THEN max1 ELSE incrRoundUp(max1, maxIncr)>>

\* uPlot.rangeAsinh(min, max, base, fullMags)
rangeAsinh(min, max, base, fullMags) ==
    LET minMax == rangeLog(min, max, base, fullMags)
    IN  <<IF min = 0 THEN 0 ELSE minMax[1], IF max = 0 THEN 0 ELSE minMax[2]>>

----------------------------------------------------------------------------
(* getConfig *)

\* isBooleanUnit(unit): the unit starts with 'bool'; a key is a sequence of characters
isBooleanUnit(scaleKey) ==
    Len(scaleKey) >= 4 /\ SubSeq(scaleKey, 1, 4) = <<"b", "o", "o", "l">>

\* a property that the object does not have
Missing == [t |-> "missing"]

\* the range function that getConfig builds, as the value of a range property
RangeFnRef == [t |-> "rangeFn"]

\* a range function supplied by the caller
UserFn == [t |-> "userFn"]

\* a literal range [lo, hi]
Lit(lo, hi) == [t |-> "lit", lo |-> lo, hi |-> hi]

\* the spread ...distribution: distr, log, asinh (plain integers, not fixed point)
distribution(p) ==
    LET distr == p.distribution
    IN  IF ~Truthy(p.isTime)
        THEN [distr |-> Num(IF distr = "symlog" THEN 4
                            ELSE IF distr = "log" THEN 3
                            ELSE IF distr = "ordinal" THEN 2
                            ELSE 1),
              log   |-> IF distr = "log" \/ distr = "symlog"
                        THEN Coalesce(p.log, Num(2)) ELSE Undefined,
              asinh |-> IF distr = "symlog"
                        THEN Coalesce(p.linearThreshold, Num(1)) ELSE Undefined]
        ELSE [distr |-> Missing, log |-> Missing, asinh |-> Missing]

\* softMin || 0
OrZero(a) == IF a.t = "num" /\ a.v # 0 THEN a.v ELSE 0

rangeConfig(p) ==
    [min |-> [pad  |-> Den \div 10,
              hard |-> Coalesce(p.min, Num(-Infinity)).v,
              soft |-> OrZero(p.softMin),
              mode |-> IF IsNullish(p.softMin) THEN 3 ELSE 1],
     max |-> [pad  |-> Den \div 10,
              hard |-> Coalesce(p.max, Num(Infinity)).v,
              soft |-> OrZero(p.softMax),
              mode |-> IF IsNullish(p.softMax) THEN 3 ELSE 1]]

hardMinOnly(p) == IsNullish(p.softMin) /\ ~IsNullish(p.min)

hardMaxOnly(p) == IsNullish(p.softMax) /\ ~IsNullish(p.max)

hasFixedRange(p) == hardMinOnly(p) /\ hardMaxOnly(p)

\* what the range function closes over: the locals of the getConfig call that built it
Closure(p) ==
    [hardMin       |-> p.min,
     hardMax       |-> p.max,
     softMin       |-> p.softMin,
     softMax       |-> p.softMax,
     centeredZero  |-> p.centeredZero,
     decimals      |-> p.decimals,
     rangeConfig   |-> rangeConfig(p),
     hardMinOnly   |-> hardMinOnly(p),
     hardMaxOnly   |-> hardMaxOnly(p),
     hasFixedRange |-> hasFixedRange(p)]

\* autoOf with a fault: the boolean override of auto is left out
autoNoBooleanOverride(p) == ~Truthy(p.isTime) /\ ~hasFixedRange(p)

\* auto, after the boolean override
autoOf(p) ==
    IF isBooleanUnit(p.scaleKey) THEN FALSE
    ELSE ~Truthy(p.isTime) /\ ~hasFixedRange(p)

\* rangeOf with a fault: the boolean override of range is left out
rangeOfNoBooleanOverride(p) == Coalesce(p.range, RangeFnRef)

\* range ?? rangeFn, after the boolean override; [0, 1] is fixed point
rangeOf(p) ==
    LET range == IF isBooleanUnit(p.scaleKey) THEN Lit(0, 1 * Den) ELSE p.range
    IN  Coalesce(range, RangeFnRef)

\* the descriptor { [scaleKey]: {...} } that getConfig returns
getConfig(p) ==
    [key   |-> p.scaleKey,
     time  |-> p.isTime,
     auto  |-> autoOf(p),
     range |-> rangeOf(p),
     dir   |-> p.direction,
     ori   |-> p.orientation,
     distr |-> distribution(p).distr,
     log   |-> distribution(p).log,
     asinh |-> distribution(p).asinh]

----------------------------------------------------------------------------
(* The range function: (u, dataMin, dataMax, scaleKey) => minMax.  c is its *)
(* closure, scale is u.scales[scaleKey], a range is a pair of values.       *)

\* u.scales[scaleKey]: the scale uPlot makes of the descriptor; distr defaults to 1
Scale(cfg) ==
    [distr |-> IF cfg.distr.t = "num" THEN cfg.distr.v ELSE 1,
     log   |-> IF cfg.log.t = "num" THEN cfg.log ELSE Undefined]

\* the no-data short-circuit
noData(c, dataMin, dataMax) ==
    ~c.hasFixedRange /\ IsNullish(dataMin) /\ IsNullish(dataMax)

\* branchOf with a fault: discriminator 4 is left to the asinh branch
branchOfAsinh(scale) ==
    IF scale.distr = 1 \/ scale.distr = 2 THEN "rangeNum"
    ELSE IF scale.distr = 3 THEN "rangeLog"
    ELSE IF scale.distr = 4 THEN "rangeAsinh"
    ELSE "none"

\* the branch of the distribution-specific computation
branchOf(scale) ==
    IF scale.distr = 1 \/ scale.distr = 2 \/ scale.distr = 4 THEN "rangeNum"
    ELSE IF scale.distr = 3 THEN "rangeLog"
    ELSE IF scale.distr = 4 THEN "rangeAsinh"
    ELSE "none"

\* centered with a fault: the larger end is taken without the absolute values
centeredNoAbs(c, scale, dataMin, dataMax) ==
    IF branchOf(scale) = "rangeNum" /\ Truthy(c.centeredZero)
    THEN LET max == Max2(ToNumber(dataMin), ToNumber(dataMax))
         IN  <<Num(-max), Num(max)>>
    ELSE <<dataMin, dataMax>>

\* the centered-zero transform of the data extent
centered(c, scale, dataMin, dataMax) ==
    IF branchOf(scale) = "rangeNum" /\ Truthy(c.centeredZero)
    THEN LET absMin == Abs(ToNumber(dataMin))
             absMax == Abs(ToNumber(dataMax))
             max    == Max2(absMin, absMax)
         IN  <<Num(-max), Num(max)>>
    ELSE <<dataMin, dataMax>>

\* the distribution-specific computation, on the extent the transform left
ranged(c, scale, extent) ==
    LET branch == branchOf(scale)
        base   == Coalesce(scale.log, Num(10)).v
        lo     == ToNumber(extent[1])
        hi     == ToNumber(extent[2])
        mm     == IF branch = "rangeNum"
                  THEN rangeNum(IF c.hardMinOnly THEN c.hardMin.v ELSE lo,
                                IF c.hardMaxOnly THEN c.hardMax.v ELSE hi,
                                c.rangeConfig)
                  ELSE IF branch = "rangeLog" THEN rangeLog(lo, hi, base, TRUE)
                  ELSE rangeAsinh(lo, hi, base, FALSE)
    IN  IF branch = "none" THEN extent ELSE <<Num(mm[1]), Num(mm[2])>>

\* snapped with a fault: both ends are rounded down
snappedBothDown(c, minMax) ==
    IF c.decimals = Num(0)
    THEN <<Num(incrRoundDn(ToNumber(minMax[1]), 1 * Den)),
           Num(incrRoundDn(ToNumber(minMax[2]), 1 * Den))>>
    ELSE minMax

\* the decimal snap
snapped(c, minMax) ==
    IF c.decimals = Num(0)
    THEN <<Num(incrRoundDn(ToNumber(minMax[1]), 1 * Den)),
           Num(incrRoundUp(ToNumber(minMax[2]), 1 * Den))>>
    ELSE minMax

\* overridden with a fault: the hard override is left out
overriddenNever(c, minMax) == minMax

\* the hard override
overridden(c, minMax) ==
    <<IF c.hardMinOnly THEN c.hardMin ELSE minMax[1],
      IF c.hardMaxOnly THEN c.hardMax ELSE minMax[2]>>

\* guarded with a fault: a range of one point (min = max) is let through
guardedStrict(minMax) ==
    IF ToNumber(minMax[1]) > ToNumber(minMax[2])
    THEN <<Num(0), Num(100 * Den)>>
    ELSE minMax

\* the guard against invalid y ranges
guarded(minMax) ==
    IF ToNumber(minMax[1]) >= ToNumber(minMax[2])
    THEN <<Num(0), Num(100 * Den)>>
    ELSE minMax

\* rangeFn with a fault: no short-circuit on an extent without data
rangeFnNoShortCircuit(c, scale, dataMin, dataMax) ==
    LET extent == centered(c, scale, dataMin, dataMax)
        r      == ranged(c, scale, extent)
        s      == snapped(c, r)
        o      == overridden(c, s)
    IN  [dataMin |-> dataMin, dataMax |-> dataMax, short |-> FALSE,
         branch |-> branchOf(scale), extent |-> extent, ranged |-> r,
         snapped |-> s, overridden |-> o, ret |-> guarded(o)]

\* one call of the range function: what it returns (ret) and what it held on the way
rangeFn(c, scale, dataMin, dataMax) ==
    LET extent == centered(c, scale, dataMin, dataMax)
        r      == ranged(c, scale, extent)
        s      == snapped(c, r)
        o      == overridden(c, s)
    IN  IF noData(c, dataMin, dataMax)
        THEN [dataMin |-> dataMin, dataMax |-> dataMax, short |-> TRUE,
              branch |-> "none", extent |-> <<dataMin, dataMax>>,
              ranged |-> <<dataMin, dataMax>>, snapped |-> <<dataMin, dataMax>>,
              overridden |-> <<dataMin, dataMax>>, ret |-> <<dataMin, dataMax>>]
        ELSE [dataMin |-> dataMin, dataMax |-> dataMax, short |-> FALSE,
              branch |-> branchOf(scale), extent |-> extent, ranged |-> r,
              snapped |-> s, overridden |-> o, ret |-> guarded(o)]

----------------------------------------------------------------------------
(* The builder as a state machine.                                         *)
(*   props    the builder's props                                          *)
(*   config   the descriptor the last getConfig call returned              *)
(*   closure  what the range function of that descriptor closes over      *)
(*   call     the last call of that range function                         *)
(*   seen     the bounds given so far, to the constructor and to merge     *)
(*   opt      one call of optMinMax by itself                              *)

NoConfig == [t |-> "none"]

NoCall == [t |-> "none"]

NoOpt == [t |-> "none"]

KeyShort == <<"s", "h", "o", "r", "t">>

KeyBool == <<"b", "o", "o", "l">>

KeyBoolOnOff == <<"b", "o", "o", "l", ":", "o", "n">>

KeyBo == <<"b", "o">>

\* the bounds a props object gives, as sets of numbers
Present(a) == IF IsNullish(a) THEN {} ELSE {a.v}

\* the data extents uPlot hands to a range function: no data, or min <= max
DataVals == {-700, 0, 50, 300}

Extents ==
    {<<Null, Null>>} \cup
    {<<Num(q[1]), Num(q[2])>> : q \in {e \in DataVals \X DataVals : e[1] <= e[2]}}

\* rangeLog in base 10 is modelled on extents without a zero only: the
\* logarithm of 0 is -Infinity, which roundDec turns into NaN
Modelled(c, scale, d) ==
    ~(~noData(c, d[1], d[2]) /\ branchOf(scale) = "rangeLog"
      /\ Coalesce(scale.log, Num(10)).v = 10
      /\ (ToNumber(d[1]) = 0 \/ ToNumber(d[2]) = 0))

MaxMerges == 2

\* new UPlotScaleBuilder(p)
Construct(p) ==
    /\ props = p
    /\ config = NoConfig
    /\ closure = NoConfig
    /\ call = NoCall
    /\ seen = [mins |-> Present(p.min), maxs |-> Present(p.max), merges |-> 0]
    /\ opt = NoOpt

\* Merge with a fault: the bounds given replace the bounds held
MergeOverwrite(p) ==
    /\ props # NoConfig
    /\ seen.merges < MaxMerges
    /\ props' = [props EXCEPT !.min = p.min, !.max = p.max]
    /\ seen' = [mins   |-> seen.mins \cup Present(p.min),
                maxs   |-> seen.maxs \cup Present(p.max),
                merges |-> seen.merges + 1]
    /\ UNCHANGED <<config, closure, call, opt>>

\* builder.merge(p)
Merge(p) ==
    /\ props # NoConfig
    /\ seen.merges < MaxMerges
    /\ props' = [props EXCEPT !.min = optMinMax("min", props.min, p.min),
                              !.max = optMinMax("max", props.max, p.max)]
    /\ seen' = [mins   |-> seen.mins \cup Present(p.min),
                maxs   |-> seen.maxs \cup Present(p.max),
                merges |-> seen.merges + 1]
    /\ UNCHANGED <<config, closure, call, opt>>

\* builder.getConfig()
GetConfig ==
    /\ props # NoConfig
    /\ config' = getConfig(props)
    /\ closure' = Closure(props)
    /\ call' = NoCall
    /\ UNCHANGED <<props, seen, opt>>

\* uPlot calls the range function of the descriptor on a data extent
RangeFn(d) ==
    /\ config # NoConfig
    /\ config.range = RangeFnRef
    /\ Modelled(closure, Scale(config), d)
    /\ call' = rangeFn(closure, Scale(config), d[1], d[2])
    /\ UNCHANGED <<props, config, closure, seen, opt>>

\* optMinMax(minmax, a, b), called by itself
OptMinMax ==
    /\ opt # NoOpt
    /\ ~opt.called
    /\ opt' = [opt EXCEPT !.called = TRUE, !.ret = optMinMax(opt.minmax, opt.a, opt.b)]
    /\ UNCHANGED <<props, config, closure, call, seen>>

----------------------------------------------------------------------------
(* Specifications *)

AllProps(keys, times, mins, maxs, softMins, softMaxs, ranges, distrs, logs, centers, decs) ==
    [scaleKey        : keys,
     isTime          : times,
     min             : mins,
     max             : maxs,
     softMin         : softMins,
     softMax         : softMaxs,
     range           : ranges,
     distribution    : distrs,
     orientation     : {"vertical"},
     direction       : {"up"},
     log             : logs,
     linearThreshold : {Undefined},
     centeredZero    : centers,
     decimals        : decs]

Distributions == {"undefined", "linear", "log", "ordinal", "symlog"}

\* the props of the builders whose range function is studied
RangeProps ==
    AllProps({KeyShort}, {Undefined, Bool(TRUE)},
             {Undefined, Num(0), Num(50), Num(500)}, {Null, Num(300)},
             {Undefined, Num(0), Num(-200)}, {Null, Num(800)},
             {Undefined}, Distributions, {Undefined, Num(10)},
             {Undefined, Bool(TRUE)}, {Undefined, Num(0)})

\* the props of the builders whose merge and getConfig are studied
BuildProps ==
    AllProps({KeyShort, KeyBool, KeyBoolOnOff, KeyBo}, {Undefined, Bool(FALSE), Bool(TRUE)},
             {Undefined, Num(500)}, {Null, Num(300)},
             {Undefined, Num(0)}, {Null},
             {Undefined, UserFn, Lit(0, 10 * Den)}, {"undefined", "log", "symlog"}, {Undefined},
             {Undefined}, {Undefined})

\* the bounds of the props given to merge
MergeProps ==
    AllProps({KeyShort}, {Undefined},
             {Undefined, Null, Num(0), Num(-300)}, {Undefined, Num(800)},
             {Undefined}, {Undefined},
             {Undefined}, {"undefined"}, {Undefined},
             {Undefined}, {Undefined})

BuildExtents == {<<Null, Null>>, <<Num(0), Num(700)>>}

OptVals == {Undefined, Null, Num(-300), Num(0), Num(200), Num(500), Num(900)}

Init == \E p \in BuildProps : Construct(p)

Next ==
    \/ \E p \in MergeProps : Merge(p)
    \/ GetConfig
    \/ \E d \in BuildExtents : RangeFn(d)

Spec == Init /\ [][Next]_vars

InitRange == \E p \in RangeProps : Construct(p)

NextRange ==
    \/ GetConfig
    \/ \E d \in Extents : RangeFn(d)

SpecRange == InitRange /\ [][NextRange]_vars

InitOpt ==
    /\ props = NoConfig
    /\ config = NoConfig
    /\ closure = NoConfig
    /\ call = NoCall
    /\ seen = [mins |-> {}, maxs |-> {}, merges |-> 0]
    /\ opt \in [minmax : {"min", "max"}, a : OptVals, b : OptVals,
                called : {FALSE}, ret : {Undefined}]

NextOpt == OptMinMax

SpecOpt == InitOpt /\ [][NextOpt]_vars

----------------------------------------------------------------------------
(* Properties of the range function, checked under SpecRange *)

\* a call of the range function has been made
Called == call # NoCall

\* the fallback range [0, 100]
Fallback == <<Num(0), Num(100 * Den)>>

\* min >= max, as the guard compares them
Degenerate(minMax) == ToNumber(minMax[1]) >= ToNumber(minMax[2])

\* the closure has a hard bound without a soft bound on that side
MinHardOnly == ~IsNullish(closure.hardMin) /\ IsNullish(closure.softMin)

MaxHardOnly == ~IsNullish(closure.hardMax) /\ IsNullish(closure.softMax)

NoData == IsNullish(call.dataMin) /\ IsNullish(call.dataMax)

(* C1: a call with dataMin and dataMax both null, on a scale that does not *)
(* have hard-only bounds on both ends, returns [null, null], whatever the  *)
(* distribution, centeredZero, decimals, soft bounds or single hard bound. *)
C1_NoDataReturnsNulls ==
    (Called /\ NoData /\ ~(MinHardOnly /\ MaxHardOnly)) => call.ret = <<Null, Null>>

\* C1's case: no data on a centered, snapped scale with one hard-only bound
C1_Witness ==
    /\ Called /\ NoData
    /\ MinHardOnly /\ ~MaxHardOnly
    /\ Truthy(closure.centeredZero) /\ closure.decimals = Num(0)
    /\ call.ret = <<Null, Null>>

(* C2, as claimed: if hardMin is set and softMin is absent the returned    *)
(* minimum equals hardMin for every input, and likewise for the maximum.   *)
C2_HardOnlyAlwaysExact ==
    Called => /\ MinHardOnly => call.ret[1] = closure.hardMin
              /\ MaxHardOnly => call.ret[2] = closure.hardMax

(* C2, amended: a hard-only bound is returned exactly unless the call is   *)
(* short-circuited for want of data, which returns [null, null], or the    *)
(* range after the hard override has min >= max, which returns [0, 100].   *)
C2_HardOnlyExact ==
    (Called /\ (MinHardOnly \/ MaxHardOnly)) =>
        IF NoData /\ ~(MinHardOnly /\ MaxHardOnly) THEN call.ret = <<Null, Null>>
        ELSE IF Degenerate(call.overridden) THEN call.ret = Fallback
        ELSE /\ MinHardOnly => call.ret[1] = closure.hardMin
             /\ MaxHardOnly => call.ret[2] = closure.hardMax

\* C2's case: the override replaced a padded, snapped minimum by hardMin
C2_Witness ==
    /\ Called /\ ~NoData
    /\ MinHardOnly
    /\ call.snapped[1] # closure.hardMin
    /\ call.dataMin # closure.hardMin
    /\ call.ret[1] = closure.hardMin

(* C3, as claimed: whenever the range function returns a non-null range,   *)
(* the returned minimum is >= hardMin if hardMin is configured and the     *)
(* returned maximum is <= hardMax if hardMax is configured, for every      *)
(* distribution, with or without soft bounds, whatever decimals is.        *)
C3_HardBoundsClamp ==
    (Called /\ call.ret[1].t = "num" /\ call.ret[2].t = "num") =>
        /\ ~IsNullish(closure.hardMin) => call.ret[1].v >= closure.hardMin.v
        /\ ~IsNullish(closure.hardMax) => call.ret[2].v <= closure.hardMax.v

(* C4: if the range after the distribution-specific computation, the       *)
(* decimal snap and the hard override has min >= max, the range returned   *)
(* is exactly [0, 100]; so hard-only bounds with hardMin >= hardMax        *)
(* resolve to [0, 100].                                                    *)
C4_DegenerateFallback ==
    (Called /\ ~call.short) =>
        /\ Degenerate(call.overridden) => call.ret = Fallback
        /\ (MinHardOnly /\ MaxHardOnly /\ closure.hardMin.v >= closure.hardMax.v)
               => call.ret = Fallback

\* C4's case: hard-only bounds in the wrong order, with data between them
C4_Witness ==
    /\ Called /\ ~NoData
    /\ MinHardOnly /\ MaxHardOnly
    /\ closure.hardMin.v > closure.hardMax.v
    /\ call.ranged # Fallback
    /\ call.ret = Fallback

\* the call was made with centeredZero set, on a data extent of two numbers
CenteredCall ==
    /\ Called /\ Truthy(closure.centeredZero)
    /\ call.dataMin.t = "num" /\ call.dataMax.t = "num"

\* the largest absolute value of the data extent
LargestAbs ==
    LET a == call.dataMin.v
        b == call.dataMax.v
    IN  CHOOSE m \in {a, -a, b, -b} : \A x \in {a, -a, b, -b} : x <= m

(* C5, as claimed: with centeredZero set and a numeric data extent, the    *)
(* range held just after the decimal snap satisfies min == -max, for every *)
(* distribution and every combination of hard and soft bounds.             *)
C5_SymmetricAfterSnap ==
    CenteredCall => call.snapped[1].v = -call.snapped[2].v

(* C5, amended: with centeredZero set and a numeric data extent, on a      *)
(* scale of discriminator 1, 2 or 4 the extent handed to the padded        *)
(* computation is [-m, m] with m = max(|dataMin|, |dataMax|), before any   *)
(* hard-only bound replaces an end of it; on a scale of discriminator 3    *)
(* the extent stays [dataMin, dataMax].                                    *)
C5_CenteredExtent ==
    CenteredCall =>
        IF call.branch = "rangeLog"
        THEN call.extent = <<call.dataMin, call.dataMax>>
        ELSE call.extent = <<Num(-LargestAbs), Num(LargestAbs)>>

\* C5's case: an extent that is not symmetric is centered on its larger end
C5_Witness ==
    /\ CenteredCall
    /\ call.branch = "rangeNum"
    /\ call.dataMin.v = -700 /\ call.dataMax.v = 300
    /\ call.extent = <<Num(-700), Num(700)>>

\* n / Den is an integer
IsInteger(n) == n % Den = 0

\* the largest integer <= n / Den and the smallest integer >= n / Den, fixed point
FloorOf(n) == CHOOSE k \in (n - Den + 1)..n : IsInteger(k)

CeilOf(n) == CHOOSE k \in n..(n + Den - 1) : IsInteger(k)

(* C6, as claimed: with decimals 0, a non-null returned range has integer  *)
(* ends, the minimum being the pre-snap minimum rounded down and the       *)
(* maximum the pre-snap maximum rounded up.                                *)
C6_ReturnedIntegers ==
    (Called /\ closure.decimals = Num(0) /\ call.ret[1].t = "num" /\ call.ret[2].t = "num") =>
        /\ IsInteger(call.ret[1].v) /\ call.ret[1].v = FloorOf(ToNumber(call.ranged[1]))
        /\ IsInteger(call.ret[2].v) /\ call.ret[2].v = CeilOf(ToNumber(call.ranged[2]))

(* C6, amended: with decimals 0, the range held after the decimal snap has *)
(* integer ends, the pre-snap minimum rounded down and the pre-snap        *)
(* maximum rounded up; the returned range is that range, except that a     *)
(* hard-only bound replaces its end (and need not be an integer) and that  *)
(* [0, 100] replaces it when min >= max after the hard override.           *)
C6_SnapThenOverride ==
    (Called /\ closure.decimals = Num(0) /\ ~call.short) =>
        /\ call.snapped = <<Num(FloorOf(ToNumber(call.ranged[1]))),
                            Num(CeilOf(ToNumber(call.ranged[2])))>>
        /\ IF Degenerate(call.overridden) THEN call.ret = Fallback
           ELSE /\ call.ret[1] = IF MinHardOnly THEN closure.hardMin ELSE call.snapped[1]
                /\ call.ret[2] = IF MaxHardOnly THEN closure.hardMax ELSE call.snapped[2]

\* C6's case: the snap moved both ends, and both are returned
C6_Witness ==
    /\ Called /\ closure.decimals = Num(0) /\ ~call.short
    /\ ~IsInteger(ToNumber(call.ranged[1])) /\ ~IsInteger(ToNumber(call.ranged[2]))
    /\ call.ret = call.snapped
    /\ IsInteger(call.ret[1].v) /\ IsInteger(call.ret[2].v)

\* the discriminator of the scale the call was made on; uPlot's default is 1
Discriminator == IF config.distr.t = "num" THEN config.distr.v ELSE 1

\* the data extent of the call after the centered-zero transform
CenteredExtent ==
    LET a == Abs(ToNumber(call.dataMin))
        b == Abs(ToNumber(call.dataMax))
        m == IF a >= b THEN a ELSE b
    IN  IF Truthy(closure.centeredZero) THEN <<Num(-m), Num(m)>>
        ELSE <<call.dataMin, call.dataMax>>

\* uPlot.rangeNum on an extent, its hard-only ends replaced, with the range config
PaddedRange(extent) ==
    LET mm == rangeNum(IF MinHardOnly THEN closure.hardMin.v ELSE ToNumber(extent[1]),
                       IF MaxHardOnly THEN closure.hardMax.v ELSE ToNumber(extent[2]),
                       closure.rangeConfig)
    IN  <<Num(mm[1]), Num(mm[2])>>

\* uPlot.rangeAsinh on an extent, as the asinh branch would call it
AsinhRange(extent) ==
    LET base == IF config.log.t = "num" THEN config.log.v ELSE 10
        mm   == rangeAsinh(ToNumber(extent[1]), ToNumber(extent[2]), base, FALSE)
    IN  <<Num(mm[1]), Num(mm[2])>>

(* C12: in the range function a scale of discriminator 4 (SymLog) is       *)
(* always resolved by the padded linear computation, uPlot.rangeNum with   *)
(* the hard/soft range config after the centered-zero transform, exactly   *)
(* as discriminators 1 and 2 are; the asinh branch is never taken; and     *)
(* discriminator 3 (Log) is the only one that skips both the transform and *)
(* the padded computation.                                                 *)
C12_SymLogIsPadded ==
    (Called /\ ~call.short) =>
        /\ call.branch # "rangeAsinh"
        /\ IF Discriminator = 3
           THEN /\ call.branch = "rangeLog"
                /\ call.extent = <<call.dataMin, call.dataMax>>
           ELSE /\ Discriminator \in {1, 2, 4}
                /\ call.branch = "rangeNum"
                /\ call.extent = CenteredExtent
                /\ call.ranged = PaddedRange(CenteredExtent)

\* C12's case: a centered SymLog scale, where the asinh range would have differed
C12_Witness ==
    /\ Called /\ ~call.short
    /\ Discriminator = 4
    /\ Truthy(closure.centeredZero)
    /\ call.dataMin = Num(-700) /\ call.dataMax = Num(300)
    /\ call.branch = "rangeNum"
    /\ call.extent = <<Num(-700), Num(700)>>
    /\ call.ranged = PaddedRange(call.extent)
    /\ call.ranged # AsinhRange(<<call.dataMin, call.dataMax>>)

----------------------------------------------------------------------------
(* Properties of getConfig and merge, checked under Spec *)

Configured == config # NoConfig

\* the keys of the model that name a boolean unit
BooleanKeys == {KeyBool, KeyBoolOnOff}

(* C7: for a scale whose key is recognized as boolean, getConfig returns a *)
(* descriptor whose range is the literal [0, 1] and whose auto is false,   *)
(* whatever the bounds, the range property and isTime are; the range       *)
(* function is not installed for that key, and so is never called.         *)
C7_BooleanOverride ==
    (Configured /\ config.key \in BooleanKeys) =>
        /\ config.range = Lit(0, 1 * Den)
        /\ config.auto = FALSE
        /\ config.range # RangeFnRef
        /\ call = NoCall

\* C7's case: a boolean key on a time scale with a hard bound and a range of its own
C7_Witness ==
    /\ Configured
    /\ config.key = KeyBoolOnOff
    /\ props.range = UserFn
    /\ Truthy(props.isTime)
    /\ ~IsNullish(closure.hardMin)
    /\ config.range = Lit(0, 1 * Den)
    /\ config.auto = FALSE

(* C8, as claimed: auto is false whenever the descriptor's range is the    *)
(* range function or a fixed literal range.                                *)
C8_AutoFalseWhenRanged ==
    (Configured /\ (config.range = RangeFnRef \/ config.range.t = "lit")) =>
        config.auto = FALSE

(* C8, amended: auto is false exactly when the scale is a time scale, or   *)
(* has hard-only bounds on both ends, or has a boolean key; otherwise auto *)
(* is true, also when the range is the range function or a literal range.  *)
C8_AutoFalseExactly ==
    Configured =>
        (config.auto = FALSE <=> \/ Truthy(config.time)
                                 \/ (MinHardOnly /\ MaxHardOnly)
                                 \/ config.key \in BooleanKeys)

\* C8's case: the range function is installed and auto is false, for fixed bounds
C8_Witness ==
    /\ Configured
    /\ config.range = RangeFnRef
    /\ ~Truthy(config.time)
    /\ MinHardOnly /\ MaxHardOnly
    /\ config.auto = FALSE

LeastOf(S) == CHOOSE x \in S : \A y \in S : x <= y

GreatestOf(S) == CHOOSE x \in S : \A y \in S : x >= y

\* the properties of the builder that merge is not to touch
OtherProps ==
    {"scaleKey", "softMin", "softMax", "distribution", "log", "linearThreshold",
     "centeredZero", "decimals", "isTime", "range", "orientation", "direction"}

\* the stored bounds are the widest of the bounds given so far
WidestSoFar ==
    /\ IF seen.mins = {} THEN IsNullish(props.min) ELSE props.min = Num(LeastOf(seen.mins))
    /\ IF seen.maxs = {} THEN IsNullish(props.max) ELSE props.max = Num(GreatestOf(seen.maxs))

\* one step: a present bound stays present and only widens, the rest is untouched
OnlyWidens ==
    /\ ~IsNullish(props.min) => (~IsNullish(props'.min) /\ props'.min.v <= props.min.v)
    /\ ~IsNullish(props.max) => (~IsNullish(props'.max) /\ props'.max.v >= props.max.v)
    /\ \A f \in OtherProps : props'[f] = props[f]

(* C10: after any sequence of merge calls the stored min is the smallest   *)
(* present min among the initial props and all merged props (absent if     *)
(* none is present) and the stored max the largest present max; at every   *)
(* step a present bound stays present and only widens, and every other     *)
(* property of the builder is left unchanged.                              *)
C10_MergeWidens == [](WidestSoFar) /\ [][OnlyWidens]_vars

\* C10's case: two merges have widened both bounds given to the constructor
C10_Witness ==
    /\ seen.merges = 2
    /\ seen.mins = {-300, 0, 500} /\ props.min = Num(-300)
    /\ seen.maxs = {300, 800} /\ props.max = Num(800)

(* C11, as claimed: for every scale built with isTime true, the descriptor *)
(* carries no distr, log or asinh field, and its range is never the range  *)
(* function, whether or not a range property was supplied.                 *)
C11_TimeScaleNoRangeFn ==
    (Configured /\ Truthy(config.time)) =>
        /\ config.distr = Missing /\ config.log = Missing /\ config.asinh = Missing
        /\ config.range # RangeFnRef

----------------------------------------------------------------------------
(* Properties of optMinMax, checked under SpecOpt *)

(* C9: optMinMax(minmax, a, b): with both present the smaller for 'min'    *)
(* and the larger for 'max'; with one present that one; with none present  *)
(* an absent result; null and undefined are both absent, and 0 is present. *)
C9_OptMinMax ==
    (opt # NoOpt /\ opt.called) =>
        LET hasA == opt.a.t = "num"
            hasB == opt.b.t = "num"
        IN  IF hasA /\ hasB
            THEN opt.ret = Num(IF opt.minmax = "min" THEN LeastOf({opt.a.v, opt.b.v})
                               ELSE GreatestOf({opt.a.v, opt.b.v}))
            ELSE IF hasA THEN opt.ret = opt.a
            ELSE IF hasB THEN opt.ret = opt.b
            ELSE opt.ret \in {Undefined, Null}

\* C9's case: a present 0 against an absent value
C9_Witness ==
    /\ opt # NoOpt /\ opt.called
    /\ opt.minmax = "max" /\ opt.a = Num(0) /\ opt.b = Null
    /\ opt.ret = Num(0)

====
